---- MODULE Spec2Model ----
(***************************************************************************)
(* air_exchange: the in-memory room registry, its realtime fan-out and its *)
(* expiry sweep.                                                           *)
(*                                                                         *)
(*   Spec        src/index.js: rooms keyed by `wifi-<roomId>`, presence    *)
(*               keyed by the socket id.                                   *)
(*   SpecClient  src/unnamed/part_001, second program (lines 163-399):     *)
(*               the same server with a client-supplied identifier in      *)
(*               joinRoom and a saved-text list per room.                  *)
(*   SpecClientAnyId  the same program, clients free to send a socket's   *)
(*               id as their identifier, in one room.                      *)
(*   SpecGlobal  src/unnamed/part_001, first program (lines 1-161): one    *)
(*               text and one file list for everybody.                     *)
(*   SpecReplica  src/index.js together with the state every client     *)
(*               builds from the init snapshot and the events it gets.     *)
(*                                                                         *)
(* Node runs every handler to completion, so each handler is one action.   *)
(* What a handler emits and answers is held in `emitted` and `res` until   *)
(* the event loop hands it to the network (Deliver), before the next       *)
(* handler runs.                                                           *)
(* The only asynchronous step in a request is multer's write of the        *)
(* uploaded blob, which precedes the /upload handler: it is its own        *)
(* action (UploadStore) and the handler is UploadHandle.                   *)
(***************************************************************************)
EXTENDS Integers, Sequences, FiniteSets, TLC

\* ------------------------------------------------------------------ bounds
MaxConns == 2
MaxRooms == 2
MaxTicks == 2
MaxFiles == 2
MaxPending == 1
MaxArrivals == 3
MaxSaved == 1
MaxClients == 1
MaxGlobalArrivals == 5

\* --------------------------------------------------------- program values
DefaultExpiry == 1800000

\* Date.now() advances in steps of the default expiry: an age is 0, exactly the
\* default expiry (kept by the sweep) or more than it (evicted).
TickMs == DefaultExpiry
StartTime == TickMs
EndTime == StartTime + MaxTicks * TickMs

Conns == 1..MaxConns
RoomIds == 1..MaxRooms
NoHeader == 0
NoRoom == <<>>
NoFile == <<>>
NoConn == 0
NoId == <<>>
NoReplica == <<>>
OrigNames == {"a"}
Texts == {"", "t"}
ExpiryChoices == {0, 1000}

VARIABLES
  roomData,   \* the Map: a function from the registered room keys to their data
  roomKeys,   \* the Map's keys in insertion order (Map.forEach's order)
  st,         \* per socket: "idle" (not yet connected), "open", "closed"
  room,       \* per socket: the handler closure's `room` variable
  members,    \* per socket: the socket.io rooms it has joined (socket.join)
  blobs,      \* the filenames present in uploadDir
  pending,    \* uploads whose blob multer has stored, handler not yet run
  clock,      \* Date.now()
  received,   \* the number of uploads and saved texts received so far
  sentId,     \* per socket: the identifier its client sent in its last joinRoom
              \* (client-id variant; the server keeps no copy of it)
  global,     \* the single-room variant's module variables `globalText`, `files`
  replica,    \* per socket: the text, files and expiry its client holds, built
              \* from the events delivered to it (NoReplica before its first init)
  emitted,    \* the events the last handler emitted, in order
  res         \* the last handler's outcome, until delivered

vars == <<roomData, roomKeys, st, room, members, blobs, pending, clock,
          received, sentId, global, replica, emitted, res>>

\* ---------------------------------------------------------------- helpers

\* `wifi-${roomId}`
RoomKey(roomId) == <<"wifi", roomId>>

\* `${Date.now()}-${file.originalname}`
FileName(now, orig) == <<now, orig>>

NewRoom == [text |-> "", files |-> <<>>, expiry |-> DefaultExpiry,
            users |-> {}, lastTextUpdate |-> 0]

Has(rd, k) == k \in DOMAIN rd

MapSet(rd, k, v) == [x \in DOMAIN rd \cup {k} |-> IF x = k THEN v ELSE rd[x]]

MapDelete(rd, k) == [x \in DOMAIN rd \ {k} |-> rd[x]]

KeysSet(keys, rd, k) == IF Has(rd, k) THEN keys ELSE Append(keys, k)

KeysDelete(keys, k) == SelectSeq(keys, LAMBDA x : x # k)

\* files.filter(file => file.filename !== filename)
WithoutFile(files, filename) == SelectSeq(files, LAMBDA f : f.filename # filename)

\* io.to(room): every connected socket that has joined the socket.io room
InRoom(k) == {c \in Conns : st[c] = "open" /\ k \in members[c]}

\* an emit: the event, the socket.io room addressed (NoRoom: one socket), the
\* sockets it reaches, its payload
Ev(ev, k, to, arg) == [ev |-> ev, k |-> k, to |-> to, arg |-> arg]

\* a handler's outcome: the handler, the socket it ran for (NoConn: none), the
\* room and the filename it was about, its HTTP status (0: none), whether it
\* ended in an uncaught exception
Res(op, c, k, f, status) ==
  [op |-> op, c |-> c, k |-> k, f |-> f, status |-> status, threw |-> FALSE]

Threw(op, c, k) ==
  [op |-> op, c |-> c, k |-> k, f |-> NoFile, status |-> 0, threw |-> TRUE]

\* no handler has output waiting
Idle == Res("idle", NoConn, NoRoom, NoFile, 0)

Quiet == res = Idle /\ emitted = <<>>

Times == {StartTime + i * TickMs : i \in 0..MaxTicks}

FileNames == {FileName(t, o) : t \in Times, o \in OrigNames}

\* what has arrived from outside so far: connections, uploads and saved texts,
\* clock ticks
Arrivals ==
  Cardinality({c \in Conns : st[c] # "idle"}) + received + (clock - StartTime) \div TickMs

Init ==
  /\ roomData = <<>>
  /\ roomKeys = <<>>
  /\ st = [c \in Conns |-> "idle"]
  /\ room = [c \in Conns |-> NoRoom]
  /\ members = [c \in Conns |-> {}]
  /\ blobs = {}
  /\ pending = {}
  /\ clock = StartTime
  /\ received = 0
  /\ sentId = [c \in Conns |-> NoId]
  /\ global = [globalText |-> "", files |-> <<>>]
  /\ replica = [c \in Conns |-> NoReplica]
  /\ emitted = <<>>
  /\ res = Idle

\* Date.now() moves on between two handlers
Tick ==
  /\ Quiet
  /\ clock < EndTime
  /\ Arrivals < MaxArrivals
  /\ clock' = clock + TickMs
  /\ UNCHANGED <<roomData, roomKeys, st, room, members, blobs, pending, received,
                 sentId, global, replica, emitted, res>>

\* io.on('connection'): a new socket, its closure's `room` undefined. Socket ids
\* are fresh, so the i-th connection is named i.
Connect(c) ==
  /\ Quiet
  /\ st[c] = "idle"
  /\ \A d \in Conns : d < c => st[d] # "idle"
  /\ Arrivals < MaxArrivals
  /\ st' = [st EXCEPT ![c] = "open"]
  /\ emitted' = <<>>
  /\ res' = Res("connection", c, NoRoom, NoFile, 0)
  /\ UNCHANGED <<roomData, roomKeys, room, members, blobs, pending, clock, received, sentId, global, replica>>

\* a socket handler that changes nothing (its `if (!room) return`)
Ignored(op, c) ==
  /\ emitted' = <<>>
  /\ res' = Res(op, c, NoRoom, NoFile, 0)
  /\ UNCHANGED <<roomData, roomKeys, st, room, members, blobs, pending, clock, received, sentId, global, replica>>

\* roomData.get(room) is undefined: the property access throws a TypeError
Throws(op, c) ==
  /\ emitted' = <<>>
  /\ res' = Threw(op, c, room[c])
  /\ UNCHANGED <<roomData, roomKeys, st, room, members, blobs, pending, clock, received, sentId, global, replica>>

\* the room's data replaced, everything but the events left alone
Mutate(op, c, k, f, data, evs) ==
  /\ roomData' = MapSet(roomData, k, data)
  /\ emitted' = evs
  /\ res' = Res(op, c, k, f, 0)
  /\ UNCHANGED <<roomKeys, st, room, members, blobs, pending, clock, received, sentId, global, replica>>

\* data.users.size || 1
JoinCount(users) == IF Cardinality(users) # 0 THEN Cardinality(users) ELSE 1

\* a variant of joinRoom that sends init with io.to(room) instead of socket.emit
JoinRoomInitToRoom(c, roomId) ==
  /\ Quiet
  /\ st[c] = "open"
  /\ LET k == RoomKey(roomId)
         rd == IF Has(roomData, k) THEN roomData ELSE MapSet(roomData, k, NewRoom)
         data == [rd[k] EXCEPT !.users = @ \cup {c}]
     IN /\ room' = [room EXCEPT ![c] = k]
        /\ members' = [members EXCEPT ![c] = @ \cup {k}]
        /\ roomKeys' = KeysSet(roomKeys, roomData, k)
        /\ roomData' = MapSet(rd, k, data)
        /\ emitted' = <<Ev("userCountUpdate", k, InRoom(k) \cup {c}, JoinCount(data.users)),
                        Ev("init", k, InRoom(k) \cup {c}, data)>>
        /\ res' = Res("joinRoom", c, k, NoFile, 0)
  /\ UNCHANGED <<st, blobs, pending, clock, received, sentId, global, replica>>

\* socket.on('joinRoom')
JoinRoom(c, roomId) ==
  /\ Quiet
  /\ st[c] = "open"
  /\ LET k == RoomKey(roomId)
         rd == IF Has(roomData, k) THEN roomData ELSE MapSet(roomData, k, NewRoom)
         data == [rd[k] EXCEPT !.users = @ \cup {c}]
     IN /\ room' = [room EXCEPT ![c] = k]
        /\ members' = [members EXCEPT ![c] = @ \cup {k}]
        /\ roomKeys' = KeysSet(roomKeys, roomData, k)
        /\ roomData' = MapSet(rd, k, data)
        /\ emitted' = <<Ev("userCountUpdate", k, InRoom(k) \cup {c}, JoinCount(data.users)),
                        Ev("init", NoRoom, {c}, data)>>
        /\ res' = Res("joinRoom", c, k, NoFile, 0)
  /\ UNCHANGED <<st, blobs, pending, clock, received, sentId, global, replica>>

\* socket.on('textUpdate')
TextUpdate(c, formattedText) ==
  /\ Quiet
  /\ st[c] = "open"
  /\ IF room[c] = NoRoom THEN Ignored("textUpdate", c)
     ELSE IF ~Has(roomData, room[c]) THEN Throws("textUpdate", c)
     ELSE Mutate("textUpdate", c, room[c], NoFile,
                 [roomData[room[c]] EXCEPT !.text = formattedText,
                                           !.lastTextUpdate = clock],
                 <<Ev("textUpdate", room[c], InRoom(room[c]) \ {c}, formattedText)>>)

\* socket.on('deleteFile')
DeleteFileEvent(c, filename) ==
  /\ Quiet
  /\ st[c] = "open"
  /\ IF room[c] = NoRoom THEN Ignored("deleteFile", c)
     ELSE IF ~Has(roomData, room[c]) THEN Throws("deleteFile", c)
     ELSE Mutate("deleteFile", c, room[c], filename,
                 [roomData[room[c]] EXCEPT !.files = WithoutFile(@, filename)],
                 <<Ev("fileDeleted", room[c], InRoom(room[c]), filename)>>)

\* socket.on('deleteAllFiles')
DeleteAllFilesEvent(c) ==
  /\ Quiet
  /\ st[c] = "open"
  /\ IF room[c] = NoRoom THEN Ignored("deleteAllFiles", c)
     ELSE IF ~Has(roomData, room[c]) THEN Throws("deleteAllFiles", c)
     ELSE Mutate("deleteAllFiles", c, room[c], NoFile,
                 [roomData[room[c]] EXCEPT !.files = <<>>],
                 <<Ev("allFilesDeleted", room[c], InRoom(room[c]), ""),
                   Ev("notification", room[c], InRoom(room[c]), "All files deleted")>>)

\* socket.on('clearText')
ClearText(c) ==
  /\ Quiet
  /\ st[c] = "open"
  /\ IF room[c] = NoRoom THEN Ignored("clearText", c)
     ELSE IF ~Has(roomData, room[c]) THEN Throws("clearText", c)
     ELSE Mutate("clearText", c, room[c], NoFile,
                 [roomData[room[c]] EXCEPT !.text = ""],
                 <<Ev("clearText", room[c], InRoom(room[c]), "")>>)

\* socket.on('setExpiry'): the room is the payload's roomId, not the closure's
SetExpiry(c, roomId, expiryTime) ==
  /\ Quiet
  /\ st[c] = "open"
  /\ LET k == RoomKey(roomId)
     IN IF Has(roomData, k)
        THEN Mutate("setExpiry", c, k, NoFile,
                    [roomData[k] EXCEPT !.expiry = expiryTime],
                    <<Ev("expiryUpdate", k, InRoom(k), expiryTime)>>)
        ELSE Ignored("setExpiry", c)

\* socket.on('cursorUpdate')
CursorUpdate(c) ==
  /\ Quiet
  /\ st[c] = "open"
  /\ IF room[c] = NoRoom THEN Ignored("cursorUpdate", c)
     ELSE /\ emitted' = <<Ev("cursorUpdate", room[c], InRoom(room[c]) \ {c}, c)>>
          /\ res' = Res("cursorUpdate", c, room[c], NoFile, 0)
          /\ UNCHANGED <<roomData, roomKeys, st, room, members, blobs, pending, clock, received, sentId, global, replica>>

\* data.users.size === 0 && data.files.length === 0 && data.text === ''
EmptyOnDisconnect(data) == data.users = {} /\ data.files = <<>> /\ data.text = ""

\* socket.on('disconnect'): socket.io has already taken the socket out of its
\* rooms; the closure, and its `room`, are unreachable afterwards
Disconnect(c) ==
  /\ Quiet
  /\ st[c] = "open"
  /\ st' = [st EXCEPT ![c] = "closed"]
  /\ members' = [members EXCEPT ![c] = {}]
  /\ room' = [room EXCEPT ![c] = NoRoom]
  /\ res' = Res("disconnect", c, room[c], NoFile, 0)
  /\ IF room[c] # NoRoom /\ Has(roomData, room[c])
     THEN LET k == room[c]
              data == [roomData[k] EXCEPT !.users = @ \ {c}]
          IN /\ emitted' = <<Ev("userCountUpdate", k, InRoom(k) \ {c},
                                Cardinality(data.users))>>
             /\ IF EmptyOnDisconnect(data)
                THEN /\ roomData' = MapDelete(roomData, k)
                     /\ roomKeys' = KeysDelete(roomKeys, k)
                ELSE /\ roomData' = MapSet(roomData, k, data)
                     /\ roomKeys' = roomKeys
     ELSE /\ emitted' = <<>>
          /\ UNCHANGED <<roomData, roomKeys>>
  /\ UNCHANGED <<blobs, pending, clock, received, sentId, global, replica>>

\* POST /upload without a file part: req.file is undefined
UploadNoFile ==
  /\ Quiet
  /\ emitted' = <<>>
  /\ res' = Res("upload", NoConn, NoRoom, NoFile, 400)
  /\ UNCHANGED <<roomData, roomKeys, st, room, members, blobs, pending, clock, received, sentId, global, replica>>

\* POST /upload, upload.single('file'): multer names the blob and writes it to
\* uploadDir; the route handler runs once the write is done
UploadStore(orig) ==
  /\ Quiet
  /\ Cardinality(pending) < MaxPending
  /\ Arrivals < MaxArrivals
  /\ received' = received + 1
  /\ blobs' = blobs \cup {FileName(clock, orig)}
  /\ pending' = pending \cup {[filename |-> FileName(clock, orig), originalname |-> orig]}
  /\ emitted' = <<>>
  /\ res' = Res("multer", NoConn, NoRoom, FileName(clock, orig), 0)
  /\ UNCHANGED <<roomData, roomKeys, st, room, members, clock, sentId, global, replica>>

\* a variant of the /upload handler that registers the room before it tests the
\* x-room-id header
UploadRouteRegistersFirst(file, roomId, fresh) ==
  /\ Quiet
  /\ file \in pending
  /\ pending' = pending \ {file}
  /\ LET k == RoomKey(roomId)
         rd == IF Has(roomData, k) THEN roomData ELSE MapSet(roomData, k, fresh)
         fileData == [filename |-> file.filename,
                      originalname |-> file.originalname,
                      timestamp |-> clock]
     IN /\ roomKeys' = KeysSet(roomKeys, roomData, k)
        /\ IF roomId = NoHeader
           THEN /\ roomData' = rd
                /\ emitted' = <<>>
                /\ res' = Res("upload", NoConn, NoRoom, file.filename, 400)
           ELSE /\ Len(rd[k].files) < MaxFiles
                /\ roomData' = MapSet(rd, k, [rd[k] EXCEPT !.files = Append(@, fileData)])
                /\ emitted' = <<Ev("newFile", k, InRoom(k), fileData),
                                Ev("notification", k, InRoom(k), "New file uploaded")>>
                /\ res' = Res("upload", NoConn, k, file.filename, 200)
  /\ UNCHANGED <<st, room, members, blobs, clock, received, sentId, global, replica>>

\* POST /upload, the route handler, req.file set; `fresh` is the room it
\* registers for an unseen key
UploadRoute(file, roomId, fresh) ==
  /\ Quiet
  /\ file \in pending
  /\ pending' = pending \ {file}
  /\ IF roomId = NoHeader
     THEN /\ emitted' = <<>>
          /\ res' = Res("upload", NoConn, NoRoom, file.filename, 400)
          /\ UNCHANGED <<roomData, roomKeys>>
     ELSE LET k == RoomKey(roomId)
              rd == IF Has(roomData, k) THEN roomData ELSE MapSet(roomData, k, fresh)
              fileData == [filename |-> file.filename,
                           originalname |-> file.originalname,
                           timestamp |-> clock]
          IN /\ Len(rd[k].files) < MaxFiles
             /\ roomKeys' = KeysSet(roomKeys, roomData, k)
             /\ roomData' = MapSet(rd, k, [rd[k] EXCEPT !.files = Append(@, fileData)])
             /\ emitted' = <<Ev("newFile", k, InRoom(k), fileData),
                             Ev("notification", k, InRoom(k), "New file uploaded")>>
             /\ res' = Res("upload", NoConn, k, file.filename, 200)
  /\ UNCHANGED <<st, room, members, blobs, clock, received, sentId, global, replica>>

UploadHandle(file, roomId) == UploadRoute(file, roomId, NewRoom)

\* GET /download/:filename
Download(filename) ==
  /\ Quiet
  /\ emitted' = <<>>
  /\ res' = Res("download", NoConn, NoRoom, filename, IF filename \in blobs THEN 200 ELSE 404)
  /\ UNCHANGED <<roomData, roomKeys, st, room, members, blobs, pending, clock, received, sentId, global, replica>>

\* files.forEach(file => fs.unlinkSync(...)): unlinkSync throws when the blob is
\* not there, and the blobs before it are already gone
RECURSIVE UnlinkAll(_, _)
UnlinkAll(files, bl) ==
  IF files = <<>> THEN [ok |-> TRUE, blobs |-> bl]
  ELSE IF Head(files).filename \notin bl THEN [ok |-> FALSE, blobs |-> bl]
  ELSE UnlinkAll(Tail(files), bl \ {Head(files).filename})

\* an HTTP handler that answers without touching anything
Answer(op, k, f, status) ==
  /\ emitted' = <<>>
  /\ res' = Res(op, NoConn, k, f, status)
  /\ UNCHANGED <<roomData, roomKeys, st, room, members, blobs, pending, clock, received, sentId, global, replica>>

\* a variant of /delete-all that empties data.files before unlinking the blobs
DeleteAllClearsFirst(roomId) ==
  /\ Quiet
  /\ IF roomId = NoHeader THEN Answer("delete-all", NoRoom, NoFile, 400)
     ELSE IF ~Has(roomData, RoomKey(roomId))
          THEN Answer("delete-all", RoomKey(roomId), NoFile, 404)
     ELSE LET k == RoomKey(roomId)
              un == UnlinkAll(roomData[k].files, blobs)
          IN /\ blobs' = un.blobs
             /\ roomData' = MapSet(roomData, k, [roomData[k] EXCEPT !.files = <<>>])
             /\ IF un.ok
                THEN /\ emitted' = <<Ev("allFilesDeleted", k, InRoom(k), ""),
                                     Ev("notification", k, InRoom(k), "All files deleted")>>
                     /\ res' = Res("delete-all", NoConn, k, NoFile, 200)
                ELSE /\ emitted' = <<>>
                     /\ res' = Res("delete-all", NoConn, k, NoFile, 500)
             /\ UNCHANGED <<roomKeys, st, room, members, pending, clock, received, sentId, global, replica>>

\* app.delete('/delete-all')
DeleteAll(roomId) ==
  /\ Quiet
  /\ IF roomId = NoHeader THEN Answer("delete-all", NoRoom, NoFile, 400)
     ELSE IF ~Has(roomData, RoomKey(roomId))
          THEN Answer("delete-all", RoomKey(roomId), NoFile, 404)
     ELSE LET k == RoomKey(roomId)
              un == UnlinkAll(roomData[k].files, blobs)
          IN /\ blobs' = un.blobs
             /\ IF un.ok
                THEN /\ roomData' = MapSet(roomData, k, [roomData[k] EXCEPT !.files = <<>>])
                     /\ emitted' = <<Ev("allFilesDeleted", k, InRoom(k), ""),
                                     Ev("notification", k, InRoom(k), "All files deleted")>>
                     /\ res' = Res("delete-all", NoConn, k, NoFile, 200)
                ELSE /\ roomData' = roomData
                     /\ emitted' = <<>>
                     /\ res' = Res("delete-all", NoConn, k, NoFile, 500)
             /\ UNCHANGED <<roomKeys, st, room, members, pending, clock, received, sentId, global, replica>>

\* app.delete('/delete-file/:filename')
DeleteFile(filename, roomId) ==
  /\ Quiet
  /\ IF roomId = NoHeader THEN Answer("delete-file", NoRoom, filename, 400)
     ELSE IF ~Has(roomData, RoomKey(roomId))
          THEN Answer("delete-file", RoomKey(roomId), filename, 404)
     ELSE IF filename \notin blobs
          THEN Answer("delete-file", RoomKey(roomId), filename, 500)
     ELSE LET k == RoomKey(roomId)
          IN /\ blobs' = blobs \ {filename}
             /\ roomData' = MapSet(roomData, k,
                                   [roomData[k] EXCEPT !.files = WithoutFile(@, filename)])
             /\ emitted' = <<Ev("fileDeleted", k, InRoom(k), filename),
                             Ev("notification", k, InRoom(k), "File deleted")>>
             /\ res' = Res("delete-file", NoConn, k, filename, 200)
             /\ UNCHANGED <<roomKeys, st, room, members, pending, clock, received, sentId, global, replica>>

\* data.expiry || 1800000
ExpiryTime(data) == IF data.expiry # 0 THEN data.expiry ELSE DefaultExpiry

\* data.files.filter(file => now - file.timestamp <= expiryTime)
Unexpired(files, now, expiryTime) ==
  SelectSeq(files, LAMBDA f : now - f.timestamp <= expiryTime)

\* the sweep's test on one room
SweepDue(data, now) ==
  \/ \E i \in 1..Len(data.files) : now - data.files[i].timestamp > ExpiryTime(data)
  \/ data.text # "" /\ now - data.lastTextUpdate > ExpiryTime(data)

\* data.files.length === 0 && data.text === '' && data.users.size === 0
EmptyOnSweep(data) == data.files = <<>> /\ data.text = "" /\ data.users = {}

\* the sweep's body for one room: the room's data afterwards, whether the room
\* is deleted, the events emitted
SweepRoom(k, data, now) ==
  IF ~SweepDue(data, now) THEN [data |-> data, deleted |-> FALSE, evs |-> <<>>]
  ELSE LET textOld == now - data.lastTextUpdate > ExpiryTime(data)
           d1 == [data EXCEPT !.files = Unexpired(@, now, ExpiryTime(data)),
                              !.text = IF textOld THEN "" ELSE @]
           clear == IF textOld THEN <<Ev("clearText", k, InRoom(k), "")>> ELSE <<>>
       IN IF EmptyOnSweep(d1)
          THEN [data |-> d1, deleted |-> TRUE, evs |-> clear]
          ELSE [data |-> d1, deleted |-> FALSE,
                evs |-> clear \o <<Ev("init", k, InRoom(k), d1)>>]

\* roomData.forEach(...) over the keys in insertion order
RECURSIVE SweepAll(_, _, _, _)
SweepAll(keys, rd, evs, now) ==
  IF keys = <<>> THEN [rd |-> rd, evs |-> evs]
  ELSE LET k == Head(keys)
           r == SweepRoom(k, rd[k], now)
       IN SweepAll(Tail(keys),
                   IF r.deleted THEN MapDelete(rd, k) ELSE MapSet(rd, k, r.data),
                   evs \o r.evs, now)

\* setInterval(() => {...}, 60000)
Sweep ==
  LET r == SweepAll(roomKeys, roomData, <<>>, clock)
  IN /\ Quiet
     /\ roomData' = r.rd
     /\ roomKeys' = SelectSeq(roomKeys, LAMBDA k : Has(r.rd, k))
     /\ emitted' = r.evs
     /\ res' = Res("sweep", NoConn, NoRoom, NoFile, 0)
     /\ UNCHANGED <<st, room, members, blobs, pending, clock, received, sentId, global, replica>>

\* the event loop turns: the handler's events and its answer leave the process
Deliver ==
  /\ ~Quiet
  /\ emitted' = <<>>
  /\ res' = Idle
  /\ UNCHANGED <<roomData, roomKeys, st, room, members, blobs, pending, clock, received, sentId, global, replica>>

Next ==
  \/ Tick
  \/ \E c \in Conns : Connect(c)
  \/ \E c \in Conns, r \in RoomIds : JoinRoom(c, r)
  \/ \E c \in Conns, t \in Texts : TextUpdate(c, t)
  \/ \E c \in Conns, f \in FileNames : DeleteFileEvent(c, f)
  \/ \E c \in Conns : DeleteAllFilesEvent(c)
  \/ \E c \in Conns : ClearText(c)
  \/ \E c \in Conns, r \in RoomIds, e \in ExpiryChoices : SetExpiry(c, r, e)
  \/ \E c \in Conns : CursorUpdate(c)
  \/ \E c \in Conns : Disconnect(c)
  \/ UploadNoFile
  \/ \E o \in OrigNames : UploadStore(o)
  \/ \E p \in pending, r \in RoomIds \cup {NoHeader} : UploadHandle(p, r)
  \/ \E f \in FileNames : Download(f)
  \/ \E r \in RoomIds \cup {NoHeader} : DeleteAll(r)
  \/ \E f \in FileNames, r \in RoomIds \cup {NoHeader} : DeleteFile(f, r)
  \/ Sweep
  \/ Deliver

Spec == Init /\ [][Next]_vars

\* ------------------------------------------------- the client-id variant
\* src/unnamed/part_001, lines 163-399: joinRoom carries a client identifier,
\* rooms hold saved texts. The handlers below are the ones that differ from
\* src/index.js; the others are the same code.

\* a socket's id as a member of `users`
Sid(c) == <<"sid", c>>

\* the stable identifiers clients send in joinRoom
ClientIds == {<<"cid", n>> : n \in 1..MaxClients}

NewRoomClient == [text |-> "", files |-> <<>>, expiry |-> DefaultExpiry,
                  users |-> {}, lastTextUpdate |-> 0, savedTexts |-> <<>>]

SavedExpiryChoices == {1000, DefaultExpiry}

\* socket.on('joinRoom', ({ roomId, clientId }) => ...)
ClientJoinRoom(c, roomId, clientId) ==
  /\ Quiet
  /\ st[c] = "open"
  /\ LET k == RoomKey(roomId)
         rd == IF Has(roomData, k) THEN roomData ELSE MapSet(roomData, k, NewRoomClient)
         data == [rd[k] EXCEPT !.users = @ \cup {clientId}]
     IN /\ room' = [room EXCEPT ![c] = k]
        /\ members' = [members EXCEPT ![c] = @ \cup {k}]
        /\ roomKeys' = KeysSet(roomKeys, roomData, k)
        /\ roomData' = MapSet(rd, k, data)
        /\ emitted' = <<Ev("userCountUpdate", k, InRoom(k) \cup {c}, Cardinality(data.users)),
                        Ev("init", NoRoom, {c}, data)>>
        /\ res' = Res("joinRoom", c, k, NoFile, 0)
  /\ sentId' = [sentId EXCEPT ![c] = clientId]
  /\ UNCHANGED <<st, blobs, pending, clock, received, global, replica>>

ClientTextUpdate(c, formattedText) == TextUpdate(c, formattedText)

ClientDeleteFileEvent(c, filename) == DeleteFileEvent(c, filename)

ClientDeleteAllFilesEvent(c) == DeleteAllFilesEvent(c)

ClientClearText(c) == ClearText(c)

ClientSetExpiry(c, roomId, expiryTime) == SetExpiry(c, roomId, expiryTime)

ClientCursorUpdate(c) == CursorUpdate(c)

\* socket.on('saveText')
SaveText(c, savedText) ==
  /\ Quiet
  /\ st[c] = "open"
  /\ IF room[c] = NoRoom THEN Ignored("saveText", c)
     ELSE IF ~Has(roomData, room[c]) THEN Throws("saveText", c)
     ELSE /\ Len(roomData[room[c]].savedTexts) < MaxSaved
          /\ Arrivals < MaxArrivals
          /\ roomData' = MapSet(roomData, room[c],
                [roomData[room[c]] EXCEPT !.savedTexts = Append(@, savedText)])
          /\ received' = received + 1
          /\ emitted' = <<Ev("savedText", room[c], InRoom(room[c]), savedText)>>
          /\ res' = Res("saveText", c, room[c], NoFile, 0)
          /\ UNCHANGED <<roomKeys, st, room, members, blobs, pending, clock, sentId, global, replica>>

\* Array.prototype.splice(index, 1): a negative index counts from the end, an
\* index past the end removes nothing
Splice1(seq, index) ==
  LET start == IF index < 0 THEN (IF Len(seq) + index < 0 THEN 0 ELSE Len(seq) + index)
               ELSE index
  IN [i \in 1..(IF start < Len(seq) THEN Len(seq) - 1 ELSE Len(seq)) |->
        IF i <= start THEN seq[i] ELSE seq[i + 1]]

\* socket.on('deleteSavedText')
DeleteSavedText(c, index) ==
  /\ Quiet
  /\ st[c] = "open"
  /\ IF room[c] = NoRoom THEN Ignored("deleteSavedText", c)
     ELSE IF ~Has(roomData, room[c]) THEN Throws("deleteSavedText", c)
     ELSE Mutate("deleteSavedText", c, room[c], NoFile,
                 [roomData[room[c]] EXCEPT !.savedTexts = Splice1(@, index)],
                 <<Ev("deleteSavedText", room[c], InRoom(room[c]), index)>>)

\* data.users.size === 0 && data.files.length === 0 && data.text === '' &&
\* data.savedTexts.length === 0
ClientEmptyOnDisconnect(data) ==
  data.users = {} /\ data.files = <<>> /\ data.text = "" /\ data.savedTexts = <<>>

\* socket.on('disconnect'): data.users.delete(socket.id)
ClientDisconnect(c) ==
  /\ Quiet
  /\ st[c] = "open"
  /\ st' = [st EXCEPT ![c] = "closed"]
  /\ members' = [members EXCEPT ![c] = {}]
  /\ room' = [room EXCEPT ![c] = NoRoom]
  /\ res' = Res("disconnect", c, room[c], NoFile, 0)
  /\ IF room[c] # NoRoom /\ Has(roomData, room[c])
     THEN LET k == room[c]
              data == [roomData[k] EXCEPT !.users = @ \ {Sid(c)}]
          IN /\ emitted' = <<Ev("userCountUpdate", k, InRoom(k) \ {c},
                                Cardinality(data.users))>>
             /\ IF ClientEmptyOnDisconnect(data)
                THEN /\ roomData' = MapDelete(roomData, k)
                     /\ roomKeys' = KeysDelete(roomKeys, k)
                ELSE /\ roomData' = MapSet(roomData, k, data)
                     /\ roomKeys' = roomKeys
     ELSE /\ emitted' = <<>>
          /\ UNCHANGED <<roomData, roomKeys>>
  /\ UNCHANGED <<blobs, pending, clock, received, sentId, global, replica>>

ClientUploadNoFile == UploadNoFile

ClientUploadStore(orig) == UploadStore(orig)

ClientUploadHandle(file, roomId) == UploadRoute(file, roomId, NewRoomClient)

ClientDownload(filename) == Download(filename)

ClientDeleteAll(roomId) == DeleteAll(roomId)

ClientDeleteFile(filename, roomId) == DeleteFile(filename, roomId)

\* data.savedTexts.filter(text => now - text.timestamp <= text.expiry)
UnexpiredSaved(savedTexts, now) ==
  SelectSeq(savedTexts, LAMBDA t : now - t.timestamp <= t.expiry)

\* a variant of the sweep's test that looks at the files and the text only
ClientSweepDueFilesAndText(data, now) ==
  \/ \E i \in 1..Len(data.files) : now - data.files[i].timestamp > ExpiryTime(data)
  \/ data.text # "" /\ now - data.lastTextUpdate > ExpiryTime(data)

\* the sweep's test on one room
ClientSweepDue(data, now) ==
  \/ \E i \in 1..Len(data.files) : now - data.files[i].timestamp > ExpiryTime(data)
  \/ data.text # "" /\ now - data.lastTextUpdate > ExpiryTime(data)
  \/ \E i \in 1..Len(data.savedTexts) :
       now - data.savedTexts[i].timestamp > data.savedTexts[i].expiry

ClientEmptyOnSweep(data) ==
  data.files = <<>> /\ data.text = "" /\ data.users = {} /\ data.savedTexts = <<>>

\* the sweep's body for one room
ClientSweepRoom(k, data, now) ==
  IF ~ClientSweepDue(data, now) THEN [data |-> data, deleted |-> FALSE, evs |-> <<>>]
  ELSE LET textOld == now - data.lastTextUpdate > ExpiryTime(data)
           d1 == [data EXCEPT !.files = Unexpired(@, now, ExpiryTime(data)),
                              !.savedTexts = UnexpiredSaved(@, now),
                              !.text = IF textOld THEN "" ELSE @]
           clear == IF textOld THEN <<Ev("clearText", k, InRoom(k), "")>> ELSE <<>>
       IN IF ClientEmptyOnSweep(d1)
          THEN [data |-> d1, deleted |-> TRUE, evs |-> clear]
          ELSE [data |-> d1, deleted |-> FALSE,
                evs |-> clear \o <<Ev("init", k, InRoom(k), d1)>>]

RECURSIVE ClientSweepAll(_, _, _, _)
ClientSweepAll(keys, rd, evs, now) ==
  IF keys = <<>> THEN [rd |-> rd, evs |-> evs]
  ELSE LET k == Head(keys)
           r == ClientSweepRoom(k, rd[k], now)
       IN ClientSweepAll(Tail(keys),
                         IF r.deleted THEN MapDelete(rd, k) ELSE MapSet(rd, k, r.data),
                         evs \o r.evs, now)

\* setInterval(() => {...}, 60000)
ClientSweep ==
  LET r == ClientSweepAll(roomKeys, roomData, <<>>, clock)
  IN /\ Quiet
     /\ roomData' = r.rd
     /\ roomKeys' = SelectSeq(roomKeys, LAMBDA k : Has(r.rd, k))
     /\ emitted' = r.evs
     /\ res' = Res("sweep", NoConn, NoRoom, NoFile, 0)
     /\ UNCHANGED <<st, room, members, blobs, pending, clock, received, sentId, global, replica>>

NextClient ==
  \/ Tick
  \/ \E c \in Conns : Connect(c)
  \/ \E c \in Conns, r \in RoomIds : \E id \in ClientIds : ClientJoinRoom(c, r, id)
  \/ \E c \in Conns, t \in Texts : ClientTextUpdate(c, t)
  \/ \E c \in Conns, f \in FileNames : ClientDeleteFileEvent(c, f)
  \/ \E c \in Conns : ClientDeleteAllFilesEvent(c)
  \/ \E c \in Conns : ClientClearText(c)
  \/ \E c \in Conns, r \in RoomIds, e \in ExpiryChoices : ClientSetExpiry(c, r, e)
  \/ \E c \in Conns : ClientCursorUpdate(c)
  \/ \E c \in Conns, e \in SavedExpiryChoices :
       SaveText(c, [text |-> "s", timestamp |-> clock, expiry |-> e])
  \/ \E c \in Conns, i \in {-1, 0, 1} : DeleteSavedText(c, i)
  \/ \E c \in Conns : ClientDisconnect(c)
  \/ ClientUploadNoFile
  \/ \E o \in OrigNames : ClientUploadStore(o)
  \/ \E p \in pending, r \in RoomIds \cup {NoHeader} : ClientUploadHandle(p, r)
  \/ \E f \in FileNames : ClientDownload(f)
  \/ \E r \in RoomIds \cup {NoHeader} : ClientDeleteAll(r)
  \/ \E f \in FileNames, r \in RoomIds \cup {NoHeader} : ClientDeleteFile(f, r)
  \/ ClientSweep
  \/ Deliver

SpecClient == Init /\ [][NextClient]_vars

\* the same program when clients may also send a socket's id as their
\* identifier, in one room
SocketIds == {Sid(c) : c \in Conns}

AnyIds == ClientIds \cup SocketIds

OneRoom == {x \in RoomIds : \A y \in RoomIds : x <= y}

NextClientAnyId ==
  \/ Tick
  \/ \E c \in Conns : Connect(c)
  \/ \E c \in Conns, r \in OneRoom : \E id \in AnyIds : ClientJoinRoom(c, r, id)
  \/ \E c \in Conns, t \in Texts : ClientTextUpdate(c, t)
  \/ \E c \in Conns, f \in FileNames : ClientDeleteFileEvent(c, f)
  \/ \E c \in Conns : ClientDeleteAllFilesEvent(c)
  \/ \E c \in Conns : ClientClearText(c)
  \/ \E c \in Conns, r \in OneRoom, e \in ExpiryChoices : ClientSetExpiry(c, r, e)
  \/ \E c \in Conns : ClientCursorUpdate(c)
  \/ \E c \in Conns, e \in SavedExpiryChoices :
       SaveText(c, [text |-> "s", timestamp |-> clock, expiry |-> e])
  \/ \E c \in Conns, i \in {-1, 0, 1} : DeleteSavedText(c, i)
  \/ \E c \in Conns : ClientDisconnect(c)
  \/ ClientUploadNoFile
  \/ \E o \in OrigNames : ClientUploadStore(o)
  \/ \E p \in pending, r \in OneRoom \cup {NoHeader} : ClientUploadHandle(p, r)
  \/ \E f \in FileNames : ClientDownload(f)
  \/ \E r \in OneRoom \cup {NoHeader} : ClientDeleteAll(r)
  \/ \E f \in FileNames, r \in OneRoom \cup {NoHeader} : ClientDeleteFile(f, r)
  \/ ClientSweep
  \/ Deliver

SpecClientAnyId == Init /\ [][NextClientAnyId]_vars

\* ---------------------------------------------- the single-room variant
\* src/unnamed/part_001, first program (lines 1-161): one text and one file
\* list for everybody, no rooms, no presence.

\* the age beyond which the auto-clean evicts a file
CleanAge == 1800000

GlobalArrivals == Arrivals

\* io.emit: every connected socket
Everyone == {c \in Conns : st[c] = "open"}

\* Date.now() moves on between two handlers
GlobalTick ==
  /\ Quiet
  /\ clock < EndTime
  /\ GlobalArrivals < MaxGlobalArrivals
  /\ clock' = clock + TickMs
  /\ UNCHANGED <<roomData, roomKeys, st, room, members, blobs, pending, received,
                 sentId, global, replica, emitted, res>>

\* io.on('connection'): socket.emit('init', { text: globalText, files })
GlobalConnect(c) ==
  /\ Quiet
  /\ st[c] = "idle"
  /\ \A d \in Conns : d < c => st[d] # "idle"
  /\ GlobalArrivals < MaxGlobalArrivals
  /\ st' = [st EXCEPT ![c] = "open"]
  /\ emitted' = <<Ev("init", NoRoom, {c}, [text |-> global.globalText, files |-> global.files])>>
  /\ res' = Res("connection", c, NoRoom, NoFile, 0)
  /\ UNCHANGED <<roomData, roomKeys, room, members, blobs, pending, clock, received, sentId, global, replica>>

\* a handler of the single-room variant: the module variables afterwards, the
\* blobs afterwards, what it emits and answers
GlobalStep(g, bl, evs, r) ==
  /\ global' = g
  /\ blobs' = bl
  /\ emitted' = evs
  /\ res' = r
  /\ UNCHANGED <<roomData, roomKeys, st, room, members, pending, clock, received, sentId, replica>>

\* socket.on('textUpdate')
GlobalTextUpdate(c, text) ==
  /\ Quiet
  /\ st[c] = "open"
  /\ GlobalStep([global EXCEPT !.globalText = text], blobs,
                <<Ev("textUpdate", NoRoom, Everyone \ {c}, text)>>,
                Res("textUpdate", c, NoRoom, NoFile, 0))

\* socket.on('deleteFile')
GlobalDeleteFileEvent(c, filename) ==
  /\ Quiet
  /\ st[c] = "open"
  /\ GlobalStep([global EXCEPT !.files = WithoutFile(@, filename)], blobs,
                <<Ev("fileDeleted", NoRoom, Everyone, filename)>>,
                Res("deleteFile", c, NoRoom, filename, 0))

\* socket.on('deleteAllFiles')
GlobalDeleteAllFilesEvent(c) ==
  /\ Quiet
  /\ st[c] = "open"
  /\ GlobalStep([global EXCEPT !.files = <<>>], blobs,
                <<Ev("allFilesDeleted", NoRoom, Everyone, "")>>,
                Res("deleteAllFiles", c, NoRoom, NoFile, 0))

\* socket.on('clearText')
GlobalClearText(c) ==
  /\ Quiet
  /\ st[c] = "open"
  /\ GlobalStep([global EXCEPT !.globalText = ""], blobs,
                <<Ev("textUpdate", NoRoom, Everyone, "")>>,
                Res("clearText", c, NoRoom, NoFile, 0))

\* socket.on('disconnect'): logs only
GlobalDisconnect(c) ==
  /\ Quiet
  /\ st[c] = "open"
  /\ st' = [st EXCEPT ![c] = "closed"]
  /\ emitted' = <<>>
  /\ res' = Res("disconnect", c, NoRoom, NoFile, 0)
  /\ UNCHANGED <<roomData, roomKeys, room, members, blobs, pending, clock, received, sentId, global, replica>>

\* POST /upload without a file part
GlobalUploadNoFile ==
  /\ Quiet
  /\ GlobalStep(global, blobs, <<>>, Res("upload", NoConn, NoRoom, NoFile, 400))

\* POST /upload, upload.single('file'): multer names the blob and writes it
GlobalUploadStore(orig) ==
  /\ Quiet
  /\ Cardinality(pending) < MaxPending
  /\ GlobalArrivals < MaxGlobalArrivals
  /\ received' = received + 1
  /\ blobs' = blobs \cup {FileName(clock, orig)}
  /\ pending' = pending \cup {[filename |-> FileName(clock, orig), originalname |-> orig]}
  /\ emitted' = <<>>
  /\ res' = Res("multer", NoConn, NoRoom, FileName(clock, orig), 0)
  /\ UNCHANGED <<roomData, roomKeys, st, room, members, clock, sentId, global, replica>>

\* POST /upload, the route handler, req.file set
GlobalUploadHandle(file) ==
  /\ Quiet
  /\ file \in pending
  /\ Len(global.files) < MaxFiles
  /\ pending' = pending \ {file}
  /\ LET fileData == [filename |-> file.filename,
                      originalname |-> file.originalname,
                      timestamp |-> clock]
     IN /\ global' = [global EXCEPT !.files = Append(@, fileData)]
        /\ emitted' = <<Ev("newFile", NoRoom, Everyone, fileData)>>
        /\ res' = Res("upload", NoConn, NoRoom, file.filename, 200)
  /\ UNCHANGED <<roomData, roomKeys, st, room, members, blobs, clock, received, sentId, replica>>

\* GET /download/:filename
GlobalDownload(filename) ==
  /\ Quiet
  /\ GlobalStep(global, blobs, <<>>,
                Res("download", NoConn, NoRoom, filename,
                    IF filename \in blobs THEN 200 ELSE 404))

\* app.delete('/delete-all')
GlobalDeleteAll ==
  /\ Quiet
  /\ LET un == UnlinkAll(global.files, blobs)
     IN IF un.ok
        THEN GlobalStep([global EXCEPT !.files = <<>>], un.blobs,
                        <<Ev("allFilesDeleted", NoRoom, Everyone, "")>>,
                        Res("delete-all", NoConn, NoRoom, NoFile, 200))
        ELSE GlobalStep(global, un.blobs, <<>>,
                        Res("delete-all", NoConn, NoRoom, NoFile, 500))

\* app.delete('/delete-file/:filename'): unlinkSync throws when there is no blob
GlobalDeleteFile(filename) ==
  /\ Quiet
  /\ IF filename \in blobs
     THEN GlobalStep([global EXCEPT !.files = WithoutFile(@, filename)],
                     blobs \ {filename},
                     <<Ev("fileDeleted", NoRoom, Everyone, filename)>>,
                     Res("delete-file", NoConn, NoRoom, filename, 200))
     ELSE GlobalStep(global, blobs, <<>>,
                     Res("delete-file", NoConn, NoRoom, filename, 500))

\* files.splice(index, 1)
SpliceAt(fs, index) ==
  [i \in 1..(Len(fs) - 1) |-> IF i < index THEN fs[i] ELSE fs[i + 1]]

\* files.forEach((file, index) => { if (now - file.timestamp > 1800000) {
\* fs.unlink(...); files.splice(index, 1) } }): forEach visits the indices in
\* ascending order and skips an index the array no longer has; a splice moves
\* the following records one place down. `index` counts from 1 here. The result
\* is the list afterwards and the filenames handed to fs.unlink.
RECURSIVE SpliceSweep(_, _, _, _)
SpliceSweep(fs, index, now, gone) ==
  IF index > Len(fs) THEN [files |-> fs, unlinked |-> gone]
  ELSE IF now - fs[index].timestamp > CleanAge
       THEN SpliceSweep(SpliceAt(fs, index), index + 1, now, gone \cup {fs[index].filename})
       ELSE SpliceSweep(fs, index + 1, now, gone)

\* setInterval(() => {...}, 1800000): the auto-clean. fs.unlink's failures are
\* ignored by its empty callback.
GlobalSweep ==
  /\ Quiet
  /\ LET r == SpliceSweep(global.files, 1, clock, {})
     IN GlobalStep([global EXCEPT !.files = r.files], blobs \ r.unlinked, <<>>,
                   Res("sweep", NoConn, NoRoom, NoFile, 0))

NextGlobal ==
  \/ GlobalTick
  \/ \E c \in Conns : GlobalConnect(c)
  \/ \E c \in Conns, t \in Texts : GlobalTextUpdate(c, t)
  \/ \E c \in Conns, f \in FileNames : GlobalDeleteFileEvent(c, f)
  \/ \E c \in Conns : GlobalDeleteAllFilesEvent(c)
  \/ \E c \in Conns : GlobalClearText(c)
  \/ \E c \in Conns : GlobalDisconnect(c)
  \/ GlobalUploadNoFile
  \/ \E o \in OrigNames : GlobalUploadStore(o)
  \/ \E p \in pending : GlobalUploadHandle(p)
  \/ \E f \in FileNames : GlobalDownload(f)
  \/ GlobalDeleteAll
  \/ \E f \in FileNames : GlobalDeleteFile(f)
  \/ GlobalSweep
  \/ Deliver

SpecGlobal == Init /\ [][NextGlobal]_vars

\* ------------------------------------------------------ client replicas
\* src/index.js with, for every socket, the state its client builds from what
\* the server sends it: the init snapshot, then every event in order. Clients
\* send non-empty texts and non-zero expiries here.

\* the replica after one event
ApplyEvent(rep, e) ==
  IF e.ev = "init"
  THEN [text |-> e.arg.text, files |-> e.arg.files, expiry |-> e.arg.expiry]
  ELSE IF rep = NoReplica THEN rep
  ELSE IF e.ev = "textUpdate" THEN [rep EXCEPT !.text = e.arg]
  ELSE IF e.ev = "clearText" THEN [rep EXCEPT !.text = ""]
  ELSE IF e.ev = "newFile" THEN [rep EXCEPT !.files = Append(@, e.arg)]
  ELSE IF e.ev = "fileDeleted" THEN [rep EXCEPT !.files = WithoutFile(@, e.arg)]
  ELSE IF e.ev = "allFilesDeleted" THEN [rep EXCEPT !.files = <<>>]
  ELSE IF e.ev = "expiryUpdate" THEN [rep EXCEPT !.expiry = e.arg]
  ELSE rep

\* the replica of socket c after the events among evs that reach c, in order
RECURSIVE ApplyAll(_, _, _)
ApplyAll(rep, evs, c) ==
  IF evs = <<>> THEN rep
  ELSE ApplyAll(IF c \in Head(evs).to THEN ApplyEvent(rep, Head(evs)) ELSE rep,
                Tail(evs), c)

\* the sender of a textUpdate shows the text it sent: socket.to(room) does not
\* echo it
OwnText(rep, c) ==
  IF /\ res.op = "textUpdate"
     /\ res.c = c
     /\ res.k # NoRoom
     /\ ~res.threw
     /\ rep # NoReplica
  THEN [rep EXCEPT !.text = emitted[1].arg]
  ELSE rep

\* the event loop turns: the events reach their sockets' clients
DeliverReplica ==
  /\ ~Quiet
  /\ replica' = [c \in Conns |->
                   IF st[c] # "open" THEN NoReplica
                   ELSE ApplyAll(OwnText(replica[c], c), emitted, c)]
  /\ emitted' = <<>>
  /\ res' = Idle
  /\ UNCHANGED <<roomData, roomKeys, st, room, members, blobs, pending, clock,
                 received, sentId, global>>

NextReplica ==
  \/ Tick
  \/ \E c \in Conns : Connect(c)
  \/ \E c \in Conns, r \in RoomIds : JoinRoom(c, r)
  \/ \E c \in Conns, t \in Texts \ {""} : TextUpdate(c, t)
  \/ \E c \in Conns, f \in FileNames : DeleteFileEvent(c, f)
  \/ \E c \in Conns : DeleteAllFilesEvent(c)
  \/ \E c \in Conns : ClearText(c)
  \/ \E c \in Conns, r \in RoomIds, e \in ExpiryChoices \ {0} : SetExpiry(c, r, e)
  \/ \E c \in Conns : CursorUpdate(c)
  \/ \E c \in Conns : Disconnect(c)
  \/ UploadNoFile
  \/ \E o \in OrigNames : UploadStore(o)
  \/ \E p \in pending, r \in RoomIds \cup {NoHeader} : UploadHandle(p, r)
  \/ \E f \in FileNames : Download(f)
  \/ \E r \in RoomIds \cup {NoHeader} : DeleteAll(r)
  \/ \E f \in FileNames, r \in RoomIds \cup {NoHeader} : DeleteFile(f, r)
  \/ Sweep
  \/ DeliverReplica

SpecReplica == Init /\ [][NextReplica]_vars

\* ------------------------------------------------------------------ claims

\* the filenames of a file list
Names(files) == {files[i].filename : i \in 1..Len(files)}

\* the sockets that are connected and whose joined room (the closure's `room`) is k
Joined(k) == {c \in Conns : st[c] = "open" /\ room[c] = k}

\* C1: every registered room has a user, a file or text (an absent room has no
\* state, so this is the whole of "registered iff non-empty").
C1_RegisteredIffNonEmpty ==
  \A k \in DOMAIN roomData :
    ~(roomData[k].users = {} /\ roomData[k].files = <<>> /\ roomData[k].text = "")

\* C2: a textUpdate from socket A with joined room X reaches exactly the other
\* sockets whose joined room is X: all of them, never A, never a socket whose
\* joined room is another one.
C2_TextUpdateOnlyToJoinedRoom ==
  \A i \in 1..Len(emitted) :
    (res.op = "textUpdate" /\ emitted[i].ev = "textUpdate")
      => emitted[i].to = Joined(res.k) \ {res.c}

\* C3: a userCountUpdate emitted on a join or a disconnect carries the number of
\* sockets connected and joined to that room (whether "joined" is read as the
\* socket's current room or as its socket.io membership), and a disconnect that
\* leaves a user in the room does not delete the room.
C3_UserCountIsJoinedCount ==
  \A i \in 1..Len(emitted) :
    (res.op \in {"joinRoom", "disconnect"} /\ emitted[i].ev = "userCountUpdate")
      => /\ \/ emitted[i].arg = Cardinality(Joined(emitted[i].k))
            \/ emitted[i].arg = Cardinality(InRoom(emitted[i].k))
         /\ (res.op = "disconnect" /\ emitted[i].arg > 0) => Has(roomData, emitted[i].k)

\* C4 (client-id variant): when a socket that joined room R disconnects, the
\* identifier it joined under is no longer in R.users, the userCountUpdate
\* carries the reduced count, and R is deleted if nothing is left in it.
C4_DisconnectRemovesIdentifier ==
  (res.op = "disconnect" /\ res.k # NoRoom) =>
    /\ Has(roomData, res.k) =>
         /\ sentId[res.c] \notin roomData[res.k].users
         /\ ~ClientEmptyOnDisconnect(roomData[res.k])
    /\ \A i \in 1..Len(emitted) :
         emitted[i].ev = "userCountUpdate" =>
           emitted[i].arg = IF Has(roomData, res.k)
                            THEN Cardinality(roomData[res.k].users) ELSE 0

\* C5: after a sweep, a room that is still registered holds exactly the records
\* whose age was at most the room's expiry, in their order.
C5_SweepKeepsByRoomExpiry ==
  [][res'.op = "sweep" =>
       \A k \in DOMAIN roomData' :
         roomData'[k].files =
           SelectSeq(roomData[k].files,
                     LAMBDA f : clock - f.timestamp <= roomData[k].expiry)]_vars

\* C6: when a sweep has completed, no registered room is empty.
C6_NoEmptyRoomAfterSweep ==
  res.op = "sweep" =>
    \A k \in DOMAIN roomData :
      ~(roomData[k].users = {} /\ roomData[k].files = <<>> /\ roomData[k].text = "")

\* C7: after a successful deletion of a file of room R, by DELETE /delete-file
\* or by the deleteFile event, R has no record of it and its blob is gone (so
\* GET /download answers 404).
C7_DeletionRemovesRecordAndBlob ==
  [][( /\ \/ res'.op = "delete-file" /\ res'.status = 200
          \/ res'.op = "deleteFile" /\ ~res'.threw /\ res'.k # NoRoom
       /\ res'.f \in Names(roomData[res'.k].files) )
       => /\ res'.f \notin Names(roomData'[res'.k].files)
          /\ res'.f \notin blobs']_vars

\* C8: every file record of every room refers to a blob that exists.
C8_RecordsHaveBlobs ==
  \A k \in DOMAIN roomData : Names(roomData[k].files) \subseteq blobs

\* C9: DELETE /delete-file with a room id answers 404 when the room is not
\* registered or the blob does not exist, and then changes nothing and emits
\* nothing.
C9_DeleteFileAnswers404 ==
  [][( /\ res'.op = "delete-file"
       /\ res'.k # NoRoom
       /\ (~Has(roomData, res'.k) \/ res'.f \notin blobs) )
       => /\ res'.status = 404
          /\ roomData' = roomData
          /\ blobs' = blobs
          /\ emitted' = <<>>]_vars

\* C10: a DELETE /delete-all or DELETE /delete-file that answers 500 leaves the
\* registry as it was and emits nothing.
C10_FailedDeleteLeavesRegistry ==
  [][(res'.op \in {"delete-all", "delete-file"} /\ res'.status = 500)
       => /\ roomData' = roomData
          /\ roomKeys' = roomKeys
          /\ emitted' = <<>>]_vars

\* a DELETE /delete-all answered 500 for a room that has file records
C10_Witness ==
  /\ res.op = "delete-all"
  /\ res.status = 500
  /\ Has(roomData, res.k)
  /\ roomData[res.k].files # <<>>

\* C11: an upload's blob is written, then its record is appended, then newFile
\* is broadcast: a newFile event is only ever emitted for a filename whose
\* record is in the room's file list and whose blob is in uploadDir.
C11_NewFileAfterBlobAndRecord ==
  \A i \in 1..Len(emitted) :
    emitted[i].ev = "newFile" =>
      /\ Has(roomData, emitted[i].k)
      /\ emitted[i].arg.filename \in Names(roomData[emitted[i].k].files)
      /\ emitted[i].arg.filename \in blobs

\* C12: a realtime event from a socket changes only the room that socket has
\* joined: every other registered room keeps its text, files and expiry, and an
\* event from a socket that has joined no room changes no room.
C12_EventsMutateOnlyJoinedRoom ==
  [][res'.op \in {"textUpdate", "deleteFile", "deleteAllFiles", "clearText",
                  "setExpiry", "cursorUpdate"}
       => \A k \in DOMAIN roomData :
            k # room[res'.c] => /\ Has(roomData', k)
                                /\ roomData'[k] = roomData[k]]_vars

\* C13: no room's file list holds two records with the same filename.
C13_NoDuplicateFilenames ==
  \A k \in DOMAIN roomData :
    \A i, j \in 1..Len(roomData[k].files) :
      roomData[k].files[i].filename = roomData[k].files[j].filename => i = j

\* C14: a joinRoom for an unregistered key creates the room with text "", no
\* files and expiry 1800000; every joinRoom adds the joiner to users, emits
\* userCountUpdate to the whole room (the joiner included) and then init to the
\* joiner alone, carrying the room's text, files and expiry as they are after
\* the join.
C14_JoinRoomCreatesAndAnnounces ==
  [][res'.op = "joinRoom"
       => LET k == res'.k
              c == res'.c
          IN /\ Has(roomData', k)
             /\ ~Has(roomData, k) => /\ roomData'[k].text = ""
                                     /\ roomData'[k].files = <<>>
                                     /\ roomData'[k].expiry = 1800000
             /\ c \in roomData'[k].users
             /\ Len(emitted') = 2
             /\ emitted'[1].ev = "userCountUpdate"
             /\ emitted'[1].to = {x \in Conns : st'[x] = "open" /\ k \in members'[x]}
             /\ {x \in Conns : st'[x] = "open" /\ room'[x] = k} \subseteq emitted'[1].to
             /\ emitted'[2].ev = "init"
             /\ emitted'[2].to = {c}
             /\ emitted'[2].arg.text = roomData'[k].text
             /\ emitted'[2].arg.files = roomData'[k].files
             /\ emitted'[2].arg.expiry = roomData'[k].expiry]_vars

\* a second socket has joined a room that already holds a file
C14_Witness ==
  /\ res.op = "joinRoom"
  /\ Cardinality(InRoom(res.k)) = 2
  /\ roomData[res.k].files # <<>>

\* C15: POST /upload answers 400 without a file or without the x-room-id header
\* and then registers no room, appends no record and emits nothing; with both
\* it registers the room if need be, appends exactly one record at the end of
\* the room's file list and answers 200.
C15_UploadAnswers ==
  [][res'.op = "upload"
       => /\ res'.status \in {200, 400}
          /\ (res'.f = NoFile \/ res'.k = NoRoom) <=> res'.status = 400
          /\ res'.status = 400 => /\ roomData' = roomData
                                  /\ roomKeys' = roomKeys
                                  /\ emitted' = <<>>
          /\ res'.status = 200 =>
               /\ Has(roomData', res'.k)
               /\ DOMAIN roomData' = DOMAIN roomData \cup {res'.k}
               /\ Len(roomData'[res'.k].files) =
                    1 + (IF Has(roomData, res'.k) THEN Len(roomData[res'.k].files) ELSE 0)
               /\ roomData'[res'.k].files[Len(roomData'[res'.k].files)].filename = res'.f
               /\ Has(roomData, res'.k) =>
                    SubSeq(roomData'[res'.k].files, 1, Len(roomData[res'.k].files))
                      = roomData[res'.k].files
               /\ \A k \in DOMAIN roomData \ {res'.k} : roomData'[k] = roomData[k]]_vars

\* POST /upload with a file and no x-room-id header, answered 400 while a room
\* is registered
C15_Witness ==
  /\ res.op = "upload"
  /\ res.status = 400
  /\ res.f # NoFile
  /\ roomKeys # <<>>

\* C16 (single-room variant): after the auto-clean at time `now` the file list
\* holds exactly the records that had now - timestamp <= 1800000 before it, in
\* their order: none older, every younger one.
C16_AutoCleanEvictsAllExpired ==
  [][res'.op = "sweep"
       => global'.files = SelectSeq(global.files,
                                    LAMBDA f : clock - f.timestamp <= 1800000)]_vars

\* C17 (client-id variant): after a sweep at time `now`, every room still
\* registered holds exactly the saved texts that had now - timestamp <= their
\* own expiry before it, whatever the room's expiry is.
C17_SavedTextsKeptByOwnExpiry ==
  [][res'.op = "sweep"
       => \A k \in DOMAIN roomData' :
            roomData'[k].savedTexts =
              SelectSeq(roomData[k].savedTexts,
                        LAMBDA t : clock - t.timestamp <= t.expiry)]_vars

\* after a sweep a room holds a saved text older than the room's expiry and
\* not older than its own
C17_Witness ==
  /\ res.op = "sweep"
  /\ \E k \in DOMAIN roomData :
       \E i \in 1..Len(roomData[k].savedTexts) :
         /\ clock - roomData[k].savedTexts[i].timestamp > roomData[k].expiry
         /\ clock - roomData[k].savedTexts[i].timestamp > 0
         /\ clock - roomData[k].savedTexts[i].timestamp <= roomData[k].savedTexts[i].expiry

\* C18: in a sweep at time `now`, a room's non-empty text is cleared and
\* clearText is emitted to the room exactly when now - lastTextUpdate exceeds
\* the room's expiry; younger text is left as it is and no clearText is emitted
\* for its room.
C18_SweepClearsOldText ==
  [][res'.op = "sweep"
       => \A k \in DOMAIN roomData :
            roomData[k].text # "" =>
              IF clock - roomData[k].lastTextUpdate > roomData[k].expiry
              THEN /\ Has(roomData', k) => roomData'[k].text = ""
                   /\ \E i \in 1..Len(emitted') :
                        /\ emitted'[i].ev = "clearText"
                        /\ emitted'[i].k = k
                        /\ emitted'[i].to = InRoom(k)
              ELSE /\ Has(roomData', k)
                   /\ roomData'[k].text = roomData[k].text
                   /\ \A i \in 1..Len(emitted') :
                        ~(emitted'[i].ev = "clearText" /\ emitted'[i].k = k)]_vars

\* C19: a sweep that evicts content from a room either deletes the room (left
\* without files, text and users) or emits init with the updated snapshot to the
\* room, never both and never neither; and a room without users and text whose
\* files are all older than the room's expiry is not registered after the
\* sweep.
C19_SweepDeletesOrAnnounces ==
  [][res'.op = "sweep"
       => \A k \in DOMAIN roomData :
            LET del == ~Has(roomData', k)
                inits == {i \in 1..Len(emitted') :
                            emitted'[i].ev = "init" /\ emitted'[i].k = k}
                evicted == \/ del
                           \/ roomData'[k].files # roomData[k].files
                           \/ roomData'[k].text # roomData[k].text
            IN /\ evicted =>
                    /\ del <=> inits = {}
                    /\ del => roomData[k].users = {}
                    /\ ~del => ~EmptyOnSweep(roomData'[k])
                    /\ \A i \in inits : /\ emitted'[i].to = InRoom(k)
                                        /\ emitted'[i].arg = roomData'[k]
               /\ ( /\ roomData[k].users = {}
                    /\ roomData[k].text = ""
                    /\ roomData[k].files # <<>>
                    /\ \A i \in 1..Len(roomData[k].files) :
                         clock - roomData[k].files[i].timestamp > roomData[k].expiry )
                  => del]_vars

\* C20: a connected socket's joined room is registered, so that no realtime
\* handler runs into a missing room: no handler has ended in an exception.
C20_JoinedRoomIsRegistered ==
  /\ \A c \in Conns : (st[c] = "open" /\ room[c] # NoRoom) => Has(roomData, room[c])
  /\ ~res.threw

\* C21: a socket that has disconnected is in no room's users set, whatever
\* rooms it joined before.
C21_DisconnectedInNoUsers ==
  \A c \in Conns :
    st[c] = "closed" => \A k \in DOMAIN roomData : c \notin roomData[k].users

\* C22: once a handler's events are delivered, the replica of every connected
\* socket that has joined a room has the text, the file list and the expiry of
\* the server's state of that room.
C22_ReplicaEqualsRoom ==
  Quiet =>
    \A c \in Conns :
      (st[c] = "open" /\ room[c] # NoRoom) =>
        /\ Has(roomData, room[c])
        /\ replica[c] # NoReplica
        /\ replica[c].text = roomData[room[c]].text
        /\ replica[c].files = roomData[room[c]].files
        /\ replica[c].expiry = roomData[room[c]].expiry

====
